---------------------------- MODULE Spec2Model ----------------------------
(***************************************************************************)
(* The asynchronous job pipeline of image-processor: SaveImage stores the *)
(* original, inserts a pending record and produces a job to the topic; the *)
(* consumer loop fetches, hands the message to UploadedHandler.Handle and  *)
(* commits its offset after a successful return.                           *)
(*                                                                         *)
(* The topic is one partition: a log of messages with offsets 1..Len(log). *)
(* The reader keeps its own read position (pos), which every successful    *)
(* fetch advances; the consumer group's committed offset (committed) is    *)
(* the offset the next reader of the group starts from.  Committing the    *)
(* message at offset o stores o + 1 as the group's offset.                 *)
(***************************************************************************)
EXTENDS Integers, Sequences, FiniteSets, TLC

\* ------------------------------------------------------------------ bounds
\* retry.Strategy.Attempts, read from the configuration file (>= 1)
Attempts == 2
\* number of SaveImage calls in a run
MaxUploads == 2
\* number of times the consumer process is started again (crash or restart)
MaxRestarts == 1

\* ------------------------------------------------------------ input domains
\* the HTTP requests that run SaveImage; each serves one call at a time
Callers == {"c1"}
Filenames == {"a.png"}
NoBytes == "absent"
\* a key missing from the params map reads as "" (Go map lookup)
NoParam == ""
\* what the uploads carry (file bytes and model.Action): a job that can
\* succeed, one whose bytes imaging.Decode rejects and one whose action name
\* is unknown
QueueInputs ==
    { [bytes |-> "img",  action |-> [name |-> "resize", width |-> "2", height |-> "1",
                                     text |-> NoParam]],
      [bytes |-> "junk", action |-> [name |-> "resize", width |-> "2", height |-> "1",
                                     text |-> NoParam]],
      [bytes |-> "img",  action |-> [name |-> "bogus", width |-> NoParam,
                                     height |-> NoParam, text |-> NoParam]] }
NoAction == [name |-> "", width |-> NoParam, height |-> NoParam, text |-> NoParam]
NoId == 0
NoImage == [id |-> NoId, originalId |-> NoId, filename |-> "", path |-> <<"", "">>,
            action |-> NoAction, status |-> ""]

VARIABLES
    artifacts,   \* artifact store: path -> bytes (NoBytes when no object)
    records,     \* persistence store: the rows of table images
    nextId,      \* identifiers handed out so far + 1 (gen_random_uuid)
    log,         \* the topic: sequence of job messages
    started,     \* SaveImage calls started so far
    upc,         \* per caller: position in its SaveImage call
    uimg,        \* per caller: the local img of the call (with the assigned id)
    utries,      \* per caller: send attempts made by SendWithRetry in the call
    ures,        \* per caller: what the call returned
    pc,          \* consume loop: position in the loop body
    pos,         \* reader: offset of the next message a fetch returns
    committed,   \* consumer group: committed offset
    cur,         \* consume loop: msg of this iteration (offset), None if none
    tries,       \* consume loop: attempts made by the running retry.Do
    cancelled,   \* ctx.Err() != nil
    restarts,    \* times the consumer process was started again
    outcome,     \* result of the last handler/commit call and the result the
                 \* same call has when ctx is not cancelled
    seen,        \* history: offsets handed to the handler
    permAgain,   \* history: offsets handed to the handler again after a
                 \* permanent failure
    okSet,       \* history: offsets whose handler returned nil
    permSet,     \* history: offsets whose handler failed permanently
    transSet,    \* history: offsets whose last handler call failed transiently
    derivedOf,   \* history: <<source id, id of the record ProcessImage inserted>>
    resp,        \* the response of the last HTTP read or delete request
    deleted,     \* history: identifiers whose DeleteImage returned success
    probe,       \* a Process call on its own: the job, and what it returned
    dels,        \* per deleting client: position in its DeleteImage call
    server       \* the HTTP server: serving or shut down; history: whether a
                 \* request was answered after the signal, before Consume returned

vars == <<artifacts, records, nextId, log, started, upc, uimg, utries, ures,
          pc, pos, committed, cur, tries, cancelled, restarts, outcome,
          seen, permAgain, okSet, permSet, transSet, derivedOf,
          resp, deleted, probe, dels, server>>

storeVars == <<artifacts, records, nextId>>
uploadVars == <<started, upc, uimg, utries, ures>>
loopVars == <<pc, pos, committed, cur, tries, cancelled, restarts, outcome>>
histVars == <<seen, permAgain, okSet, permSet, transSet, derivedOf>>
obsVars == <<resp, deleted, probe, dels, server>>

\* no request answered yet; no Process call made on its own
NoResp == [n |-> 0, op |-> "", id |-> NoId, fault |-> "none", code |-> 0,
           img |-> NoImage, bytes |-> NoBytes]
NoProbe == [done |-> FALSE]

\* the clients that call DELETE at the same time; none has called yet
Deleters == {"d1", "d2"}
NoDel == [pc |-> "idle", id |-> NoId, img |-> NoImage, res |-> "", existed |-> FALSE,
          removes |-> 0]
\* s.ListenAndServe() is running
Serving == [up |-> TRUE, late |-> FALSE]

Paths == {<<d, f>> : d \in {"original", "resized", "thumbnails", "watermarked"},
                     f \in Filenames}

\* filepath.Join(subdir, filename)
ObjectName(subdir, filename) == <<subdir, filename>>


\* ------------------------------------------------------ Transformation Engine
\* strconv.Atoi on the parameter strings of the model: the integer for a
\* decimal integer (negative and zero included); 0 and an error for anything
\* else, the missing key ("") included
IntStrings == {"-1", "0", "1", "2", "3"}
Atoi(s) ==
    CASE s = "-1" -> [ok |-> TRUE, val |-> -1]
      [] s = "0" -> [ok |-> TRUE, val |-> 0]
      [] s = "1" -> [ok |-> TRUE, val |-> 1]
      [] s = "2" -> [ok |-> TRUE, val |-> 2]
      [] s = "3" -> [ok |-> TRUE, val |-> 3]
      [] OTHER -> [ok |-> FALSE, val |-> 0]
AtoiOK(s) == Atoi(s).ok

\* imaging.Decode: the raster (width and height in pixels) of the byte strings
\* that are encoded images; anything else, a missing object included, is an
\* error
RasterBytes == {"img", "tall", "tiny"}
RasterOf(b) ==
    CASE b = "img" -> [w |-> 400, h |-> 300]
      [] b = "tall" -> [w |-> 100, h |-> 300]
      [] b = "tiny" -> [w |-> 8, h |-> 8]
DecodeOK(b) == b \in RasterBytes

\* the namespace each branch of Process writes under
Subdir(name) ==
    CASE name = "resize" -> "resized"
      [] name = "thumbnail" -> "thumbnails"
      [] name = "watermark" -> "watermarked"
      [] OTHER -> ""

\* the encoded result of the one operation a branch performs
Transform(name, b) == Subdir(name) \o ":" \o b

\* whether the branch validates width/height before its first I/O
\* (faulty variant: the parameters are read after the image is loaded)
NeedsSizeLate(name) == FALSE
NeedsSize(name) == name \in {"resize", "thumbnail"}

\* &image.NRGBA{}: the empty raster imaging returns for sizes it rejects
EmptyRaster == [w |-> 0, h |-> 0]

\* math.Max(1.0, math.Floor(x + 0.5)) for x = a * b / c
RoundScaled(a, b, c) ==
    LET r == (2 * a * b + c) \div (2 * c)
    IN  IF r < 1 THEN 1 ELSE r

\* imaging.Resize(image, width, height, filter): a negative size or both sizes
\* zero give the empty raster; one size zero keeps the aspect ratio of the
\* source
Resize(src, width, height) ==
    IF width < 0 \/ height < 0 THEN EmptyRaster
    ELSE IF width = 0 /\ height = 0 THEN EmptyRaster
    ELSE IF src.w <= 0 \/ src.h <= 0 THEN EmptyRaster
    ELSE IF width = 0 THEN [w |-> RoundScaled(height, src.w, src.h), h |-> height]
    ELSE IF height = 0 THEN [w |-> width, h |-> RoundScaled(width, src.h, src.w)]
    ELSE [w |-> width, h |-> height]

\* imaging.Thumbnail(image, width, height, filter) = Fill(..., Center, ...):
\* scaled and cropped to exactly the size; a size that is not positive gives
\* the empty raster
Thumbnail(src, width, height) ==
    IF width <= 0 \/ height <= 0 THEN EmptyRaster
    ELSE IF src.w <= 0 \/ src.h <= 0 THEN EmptyRaster
    ELSE [w |-> width, h |-> height]

\* gg.NewContextForImage(image) ... dc.Image(): the canvas has the size of
\* the source
Watermark(src) == [w |-> src.w, h |-> src.h]

\* the raster a branch of Process encodes
OutRaster(a, src) ==
    CASE a.name = "resize" -> Resize(src, Atoi(a.width).val, Atoi(a.height).val)
      [] a.name = "thumbnail" -> Thumbnail(src, Atoi(a.width).val, Atoi(a.height).val)
      [] OTHER -> Watermark(src)

\* the artifact store after fileStorage.Save returned an error: PutObject has
\* created no object
\* (faulty variant: the interrupted upload leaves a truncated object)
PartialWrite(arts, dst) == [arts EXCEPT ![dst] = "partial"]
AfterFailedSave(arts, dst) == arts

\* Processor.Process(ctx, img) on artifact store arts.  fault names the call
\* that fails in this invocation ("none", "load", "font", "encode", "save"; "ctx": the
\* store calls are made with a cancelled context and the first of them fails).
\* Result: err ("" for nil, else the class of the error), the returned image,
\* the artifact store afterwards, the store calls made in order and the raster
\* that was encoded.
ProcFail(class, arts, calls) ==
    [err |-> class, img |-> NoImage, arts |-> arts, calls |-> calls,
     raster |-> EmptyRaster]
Process(img, arts, fault) ==
    LET a == img.action
        dst == ObjectName(Subdir(a.name), img.filename)
    IN  IF a.name \notin {"resize", "thumbnail", "watermark"}
          THEN ProcFail("permanent", arts, <<>>)
        ELSE IF NeedsSize(a.name) /\ ~AtoiOK(a.width)
          THEN ProcFail("permanent", arts, <<>>)
        ELSE IF NeedsSize(a.name) /\ ~AtoiOK(a.height)
          THEN ProcFail("permanent", arts, <<>>)
        ELSE IF fault \in {"load", "ctx"}
          THEN ProcFail("transient", arts, <<"load">>)
        ELSE IF ~DecodeOK(arts[img.path])
          THEN ProcFail("permanent", arts, <<"load">>)
        ELSE IF a.name = "watermark" /\ fault = "font"
          THEN ProcFail("permanent", arts, <<"load">>)
        ELSE IF fault = "encode"
          THEN ProcFail("permanent", arts, <<"load">>)
        ELSE IF fault = "save"
          THEN ProcFail("transient", AfterFailedSave(arts, dst), <<"load", "save">>)
        ELSE [err |-> "",
              img |-> [img EXCEPT !.path = dst, !.status = "processed"],
              arts |-> [arts EXCEPT ![dst] = Transform(a.name, arts[img.path])],
              calls |-> <<"load", "save">>,
              raster |-> OutRaster(a, RasterOf(arts[img.path]))]

\* -------------------------------------------------------- Persistence Store
\* Repository.SaveImage: INSERT ... RETURNING id.  The row takes the columns
\* of img and a fresh identifier.
InsertRow(recs, nid, img) == recs \cup {[img EXCEPT !.id = nid]}

\* id ... DEFAULT gen_random_uuid(): every INSERT draws an identifier no row
\* has had; the model hands out 1, 2, ...
\* (faulty variant: the generator repeats the identifier it gave last)
NextIdSame(n) == n
NextIdAfter(n) == n + 1

\* ----------------------------------------------------- Orchestration Service
\* Service.ProcessImage, second step: s.repository.SaveImage(ctx, img), an INSERT
\* (faulty variant: an UPDATE of path and status of the row that has img.ID)
UpdateImage(recs, nid, img) == {r \in recs : r.id # img.id} \cup {img}
PersistResult(recs, nid, img) == InsertRow(recs, nid, img)

\* Service.ProcessImage returns the error of Process or of the INSERT and makes
\* no other repository call
\* (faulty variant: the row of the job is marked failed)
MarkFailed(recs, img) ==
    {r \in recs : r.id # img.id}
        \cup {[r EXCEPT !.status = "failed"] : r \in {q \in recs : q.id = img.id}}
OnProcessError(recs, img) == recs

\* Service.ProcessImage(ctx, img): Process, then insert the returned image.
\* fault "insert": the INSERT fails.  Result: err, the stores afterwards and
\* the identifier of the inserted row (NoId on error).
ProcessImage(img, arts, recs, nid, fault) ==
    LET p == Process(img, arts, fault)
    IN  IF p.err # ""
          THEN [err |-> p.err, arts |-> p.arts, recs |-> OnProcessError(recs, img),
                nid |-> nid, new |-> NoId]
        ELSE IF fault = "insert"
          THEN [err |-> "transient", arts |-> p.arts, recs |-> OnProcessError(recs, img),
                nid |-> nid, new |-> NoId]
        ELSE [err |-> "", arts |-> p.arts, recs |-> PersistResult(recs, nid, p.img),
              nid |-> NextIdAfter(nid), new |-> nid]

\* ------------------------------------------------------------- Durable Queue
\* json.Marshal(img) with the struct tags of model.Image, and json.Unmarshal
Marshal(img) ==
    [id |-> img.id, original_id |-> img.originalId, filename |-> img.filename,
     file_path |-> img.path, actions |-> img.action, status |-> img.status]
Unmarshal(m) ==
    [id |-> m.id, originalId |-> m.original_id, filename |-> m.filename,
     path |-> m.file_path, action |-> m.actions, status |-> m.status]

\* retry.Do(fn, strategy): fn is called until it returns nil or n = Attempts
\* calls have been made
\* (faulty variant: one call too many)
RetryExhaustedLate(n) == n > Attempts
RetryExhausted(n) == n >= Attempts

\* Producer.Send: a send that returns an error has written nothing
\* (faulty variant: the failed send has written the message)
SendBad(l, m, ok) == Append(l, m)
Send(l, m, ok) == IF ok THEN Append(l, m) ELSE l

\* number of messages of the topic that carry identifier id
RECURSIVE CountFor(_, _)
CountFor(l, id) ==
    IF l = <<>> THEN 0
    ELSE (IF Head(l).id = id THEN 1 ELSE 0) + CountFor(Tail(l), id)

\* ----------------------------------------------------------------- SaveImage
\* Service.SaveImage, step 1: fileStorage.Save(ctx, "original", filename, file)
SaveImageStore(u, inputs) ==
    /\ upc[u] \in {"idle", "done"}
    /\ started < MaxUploads
    /\ started' = started + 1
    /\ \E f \in Filenames, in \in inputs, ok \in BOOLEAN :
         LET dst == ObjectName("original", f)
             b == in.bytes
             a == in.action
         IN  IF ok
               THEN /\ artifacts' = [artifacts EXCEPT ![dst] = b]
                    /\ uimg' = [uimg EXCEPT ![u] =
                           [NoImage EXCEPT !.filename = f, !.path = dst,
                                           !.action = a, !.status = "pending"]]
                    /\ upc' = [upc EXCEPT ![u] = "insert"]
                    /\ ures' = [ures EXCEPT ![u] = ""]
               ELSE /\ upc' = [upc EXCEPT ![u] = "done"]
                    /\ ures' = [ures EXCEPT ![u] = "err_storage"]
                    /\ uimg' = [uimg EXCEPT ![u] = NoImage]
                    /\ UNCHANGED artifacts
    /\ utries' = [utries EXCEPT ![u] = 0]
    /\ UNCHANGED <<records, nextId, log, loopVars, histVars, obsVars>>

\* img.ID = id: the job takes the identifier the INSERT returned
\* (faulty variant: the assignment is missing)
WithIDMissing(img, id) == img
WithID(img, id) == [img EXCEPT !.id = id]

\* where a SaveImage call goes when the INSERT returned an error: it returns
\* the error
\* (faulty variant: the error is dropped and the job is enqueued)
OnInsertErrorContinue == "enqueue"
OnInsertError == "done"

\* Service.SaveImage, step 2: repository.SaveImage(ctx, img); img.ID = id
SaveImageInsert(u) ==
    /\ upc[u] = "insert"
    /\ \E ok \in BOOLEAN :
         IF ok
           THEN /\ records' = InsertRow(records, nextId, uimg[u])
                /\ nextId' = NextIdAfter(nextId)
                /\ uimg' = [uimg EXCEPT ![u] = WithID(uimg[u], nextId)]
                /\ upc' = [upc EXCEPT ![u] = "enqueue"]
                /\ ures' = ures
           ELSE /\ upc' = [upc EXCEPT ![u] = OnInsertError]
                /\ ures' = [ures EXCEPT ![u] = "err_db"]
                /\ UNCHANGED <<records, nextId, uimg>>
    /\ UNCHANGED <<artifacts, log, started, utries, loopVars, histVars, obsVars>>

\* Service.SaveImage, step 3: producer.Produce(ctx, img), one call of Send by
\* SendWithRetry per step; returns (id, dst, nil) or the enqueue error
Produce(u) ==
    /\ upc[u] = "enqueue"
    /\ \E ok \in BOOLEAN :
         /\ log' = Send(log, Marshal(uimg[u]), ok)
         /\ utries' = [utries EXCEPT ![u] = @ + 1]
         /\ IF ok
              THEN /\ upc' = [upc EXCEPT ![u] = "done"]
                   /\ ures' = [ures EXCEPT ![u] = "ok"]
              ELSE IF RetryExhausted(utries[u] + 1)
              THEN /\ upc' = [upc EXCEPT ![u] = "done"]
                   /\ ures' = [ures EXCEPT ![u] = "err_enqueue"]
              ELSE UNCHANGED <<upc, ures>>
    /\ UNCHANGED <<storeVars, started, uimg, loopVars, histVars, obsVars>>

\* -------------------------------------------------------------- Consume loop
\* the top of the loop body: leave when ctx.Err() != nil
\* (faulty variant: the check is missing)
ExitNowNever(c) == FALSE
ExitNow(c) == c

\* where the loop goes after Handle returned err ("" for nil)
\* (faulty variants: the error is ignored; the error ends Consume)
AfterHandleCommit(err) == "commit"
AfterHandleReturn(err) == IF err = "" THEN "commit" ELSE "exited"
AfterHandle(err) == IF err = "" THEN "commit" ELSE "check"

\* what a Fetch call can return: the next message when one is there (the
\* reader's select may take it even when ctx is done), or an error (a
\* transient one, or ctx.Err() once ctx is cancelled).  With no message and
\* no error the call blocks.
\* (faulty variant: Fetch is called with a context that is never cancelled)
FetchOutcomesNoCtx(c, avail) ==
    (IF avail THEN {"msg"} ELSE {}) \cup (IF c THEN {} ELSE {"err"})
FetchOutcomes(c, avail) == (IF avail THEN {"msg"} ELSE {}) \cup {"err"}

\* the store call of the handler that fails in an invocation; with ctx
\* cancelled the calls may fail with ctx.Err()
HandlerFaults(c) ==
    {"none", "load", "save", "insert"} \cup (IF c THEN {"ctx"} ELSE {})

\* what a Commit call can do: store the offset and return nil; fail; with ctx
\* cancelled return ctx.Err(), before or after the request was handed to the
\* reader's commit loop
CommitOutcomes(c) ==
    {"ok", "fail"} \cup (IF c THEN {"ctx", "ctx_applied"} ELSE {})

\* for { if ctx.Err() != nil { return } ...
LoopCheck ==
    /\ pc = "check"
    /\ pc' = IF ExitNow(cancelled) THEN "exited" ELSE "fetch"
    /\ tries' = 0
    /\ cur' = 0
    /\ outcome' = [got |-> "", ideal |-> ""]
    /\ UNCHANGED <<storeVars, log, uploadVars, pos, committed, cancelled, restarts,
                   histVars, obsVars>>

\* one call of c.Client.Fetch(ctx) by retry.Do; after Attempts errors the loop
\* sleeps and continues
Fetch ==
    /\ pc = "fetch"
    /\ \E out \in FetchOutcomes(cancelled, pos <= Len(log)) :
         IF out = "msg"
           THEN /\ cur' = pos
                /\ pos' = pos + 1
                /\ pc' = "handle"
                /\ tries' = 0
           ELSE /\ tries' = IF RetryExhausted(tries + 1) THEN 0 ELSE tries + 1
                /\ pc' = IF RetryExhausted(tries + 1) THEN "check" ELSE "fetch"
                /\ UNCHANGED <<cur, pos>>
    /\ UNCHANGED <<storeVars, log, uploadVars, committed, cancelled, restarts,
                   outcome, histVars, obsVars>>

\* c.uploadedHandler.Handle(ctx, msg): json.Unmarshal, service.ProcessImage
Handle ==
    /\ pc = "handle"
    /\ \E fault \in HandlerFaults(cancelled) :
         LET img == Unmarshal(log[cur])
             r == ProcessImage(img, artifacts, records, nextId, fault)
             i == ProcessImage(img, artifacts, records, nextId,
                               IF fault = "ctx" THEN "none" ELSE fault)
         IN  /\ artifacts' = r.arts
             /\ records' = r.recs
             /\ nextId' = r.nid
             /\ pc' = AfterHandle(r.err)
             /\ outcome' = [got |-> r.err, ideal |-> i.err]
             /\ seen' = seen \cup {cur}
             /\ permAgain' = IF cur \in permSet THEN permAgain \cup {cur} ELSE permAgain
             /\ okSet' = IF r.err = "" THEN okSet \cup {cur} ELSE okSet
             /\ permSet' = IF r.err = "permanent" THEN permSet \cup {cur} ELSE permSet
             /\ transSet' = IF r.err = "transient" THEN transSet \cup {cur}
                            ELSE transSet \ {cur}
             /\ derivedOf' = IF r.err = "" THEN derivedOf \cup {<<img.id, r.new>>}
                             ELSE derivedOf
    /\ UNCHANGED <<log, uploadVars, pos, committed, cur, tries, cancelled, restarts,
                   obsVars>>

\* one call of c.Client.Commit(ctx, msg) by retry.Do; after Attempts errors
\* the failure is logged and the loop goes on
Commit ==
    /\ pc = "commit"
    /\ \E out \in CommitOutcomes(cancelled) :
         /\ committed' = IF out \in {"ok", "ctx_applied"} THEN cur + 1 ELSE committed
         /\ outcome' = [got |-> IF out = "ok" THEN "" ELSE "transient",
                        ideal |-> IF out \in {"ok", "ctx", "ctx_applied"} THEN ""
                                  ELSE "transient"]
         /\ IF out = "ok"
              THEN /\ pc' = "check"
                   /\ tries' = 0
              ELSE /\ tries' = IF RetryExhausted(tries + 1) THEN 0 ELSE tries + 1
                   /\ pc' = IF RetryExhausted(tries + 1) THEN "check" ELSE "commit"
    /\ UNCHANGED <<storeVars, log, uploadVars, pos, cur, cancelled, restarts, histVars, obsVars>>

\* SIGINT/SIGTERM: signal.NotifyContext cancels ctx
Cancel ==
    /\ ~cancelled
    /\ cancelled' = TRUE
    /\ UNCHANGED <<storeVars, log, uploadVars, pc, pos, committed, cur, tries,
                   restarts, outcome, histVars, obsVars>>

\* the process ends (a crash at any point, or the return of main) and is
\* started again: the new reader of the group starts at the committed offset,
\* and the SaveImage calls that were running are gone
Restart ==
    /\ restarts < MaxRestarts
    /\ restarts' = restarts + 1
    /\ pc' = "check"
    /\ pos' = committed
    /\ cur' = 0
    /\ tries' = 0
    /\ cancelled' = FALSE
    /\ outcome' = [got |-> "", ideal |-> ""]
    /\ upc' = [u \in Callers |-> IF upc[u] = "idle" THEN "idle" ELSE "done"]
    /\ ures' = [u \in Callers |-> IF upc[u] \in {"idle", "done"} THEN ures[u]
                                   ELSE "killed"]
    /\ UNCHANGED <<storeVars, log, started, uimg, utries, committed, histVars, obsVars>>

\* ------------------------------------------------------------- specification
Init ==
    /\ artifacts = [p \in Paths |-> NoBytes]
    /\ records = {}
    /\ nextId = 1
    /\ log = <<>>
    /\ started = 0
    /\ upc = [u \in Callers |-> "idle"]
    /\ uimg = [u \in Callers |-> NoImage]
    /\ utries = [u \in Callers |-> 0]
    /\ ures = [u \in Callers |-> ""]
    /\ pc = "check"
    /\ pos = 1
    /\ committed = 1
    /\ cur = 0
    /\ tries = 0
    /\ cancelled = FALSE
    /\ restarts = 0
    /\ outcome = [got |-> "", ideal |-> ""]
    /\ seen = {}
    /\ permAgain = {}
    /\ okSet = {}
    /\ permSet = {}
    /\ transSet = {}
    /\ derivedOf = {}
    /\ resp = NoResp
    /\ deleted = {}
    /\ probe = NoProbe
    /\ dels = [d \in Deleters |-> NoDel]
    /\ server = Serving

ConsumerNext == LoopCheck \/ Fetch \/ Handle \/ Commit

Next ==
    \/ \E u \in Callers : SaveImageStore(u, QueueInputs)
    \/ \E u \in Callers : SaveImageInsert(u)
    \/ \E u \in Callers : Produce(u)
    \/ LoopCheck
    \/ Fetch
    \/ Handle
    \/ Commit
    \/ Cancel
    \/ Restart

Spec == Init /\ [][Next]_vars

\* The consume loop on a topic that already holds its jobs: the state after n
\* SaveImage calls returned success, before the loop's first iteration.
InputSeqs == UNION {[1..n -> QueueInputs] : n \in 0..MaxUploads}
UploadedImage(ins, k) ==
    [NoImage EXCEPT !.id = k, !.filename = "a.png",
                    !.path = ObjectName("original", "a.png"),
                    !.action = ins[k].action, !.status = "pending"]
LoopInit ==
    \E ins \in InputSeqs :
        LET n == Len(ins)
        IN  /\ artifacts = [p \in Paths |->
                   IF n > 0 /\ p = ObjectName("original", "a.png")
                     THEN ins[n].bytes ELSE NoBytes]
            /\ records = {UploadedImage(ins, k) : k \in 1..n}
            /\ nextId = n + 1
            /\ log = [k \in 1..n |-> Marshal(UploadedImage(ins, k))]
            /\ started = n
            /\ upc = [u \in Callers |-> IF n > 0 THEN "done" ELSE "idle"]
            /\ uimg = [u \in Callers |-> IF n > 0 THEN UploadedImage(ins, n) ELSE NoImage]
            /\ utries = [u \in Callers |-> IF n > 0 THEN 1 ELSE 0]
            /\ ures = [u \in Callers |-> IF n > 0 THEN "ok" ELSE ""]
            /\ pc = "check"
            /\ pos = 1
            /\ committed = 1
            /\ cur = 0
            /\ tries = 0
            /\ cancelled = FALSE
            /\ restarts = 0
            /\ outcome = [got |-> "", ideal |-> ""]
            /\ seen = {}
            /\ permAgain = {}
            /\ okSet = {}
            /\ permSet = {}
            /\ transSet = {}
            /\ derivedOf = {}
            /\ resp = NoResp
            /\ deleted = {}
            /\ probe = NoProbe
            /\ dels = [d \in Deleters |-> NoDel]
            /\ server = Serving

LoopNext == LoopCheck \/ Fetch \/ Handle \/ Commit \/ Cancel \/ Restart

\* the consumer goroutine keeps running: every call it makes returns
LoopFairSpec == LoopInit /\ [][LoopNext]_vars /\ WF_vars(ConsumerNext)

\* -------------------------------------------------------------------- claims
\* C1: in the consume loop a commit of a message's position is attempted if
\* and only if the handler returned success for that message in the same
\* iteration; after a handler failure no commit is issued for the message and
\* the loop goes on to the next fetch.
C1_CommitIffHandlerSuccess ==
    [][ /\ (pc' = "commit" /\ pc # "commit")
            => (pc = "handle" /\ outcome'.got = "" /\ cur' = cur)
        /\ (pc = "handle" /\ pc' # "handle" /\ restarts' = restarts)
            => /\ (outcome'.got = "") <=> (pc' = "commit")
               /\ outcome'.got # "" => (pc' = "check" /\ committed' = committed)
        /\ committed' # committed
            => (pc = "commit" /\ committed' = cur + 1 /\ cur \in okSet)
        /\ (pc = "check" /\ pc' = "fetch") => committed' = committed ]_vars

\* a handler failure was followed by the next iteration, with nothing committed
C1_Witness ==
    /\ pc = "fetch"
    /\ restarts = 0
    /\ 1 \in permSet \cup transSet
    /\ 1 \notin okSet
    /\ committed = 1

\* C2: the committed position of the consumer never covers a message whose
\* handler has not returned success (so every message not yet handled
\* successfully is fetched again after a crash or restart).
C2_CommittedCoversOnlyHandled ==
    \A o \in 1..Len(log) : o < committed => o \in okSet

\* C3: a job whose handler invocation fails with a transient error is retried:
\* it can still be delivered to the handler again (it is not behind both the
\* reader's position and the group's committed offset) until it is delivered.
C3_TransientRetried ==
    \A o \in transSet : pos <= o \/ committed <= o

\* C4: a message whose handler fails with a permanent processing error is
\* never passed to the handler again, also after a restart, and no derived
\* record is ever created for it.
C4_PermanentNeverRedelivered ==
    \A o \in permSet :
        /\ o \notin permAgain
        /\ \A d \in derivedOf : d[1] # log[o].id

\* C5: the consume loop exits only after it has observed cancellation;
\* exhausted fetch retries, a handler failure and exhausted commit retries do
\* not terminate it: after each of them the loop starts another iteration.
C5_ExitOnlyOnCancel ==
    [][ /\ (pc' = "exited" /\ pc # "exited") => (pc = "check" /\ cancelled)
        /\ (pc = "fetch" /\ pc' \notin {"fetch", "handle"}) => pc' = "check"
        /\ (pc = "handle" /\ pc' \notin {"handle", "commit"}) => pc' = "check"
        /\ (pc = "commit" /\ pc' # "commit") => pc' = "check"
        /\ (pc = "check" /\ ~cancelled /\ pc' # "check") => pc' = "fetch" ]_vars

\* the loop is in a new iteration after a handler failure (offset 1) and after
\* exhausted commit retries (offset 2)
C5_Witness ==
    /\ pc = "fetch"
    /\ restarts = 0
    /\ ~cancelled
    /\ permSet = {1}
    /\ okSet = {2}
    /\ committed = 1

\* C6: if cancellation has been signaled when an iteration of the consume loop
\* begins, the loop exits without issuing any further fetch, handler call or
\* commit.
C6_CancelledAtCheckExits ==
    [][ /\ (pc = "check" /\ cancelled /\ restarts' = restarts /\ pc' # pc)
            => (pc' = "exited" /\ UNCHANGED <<pos, committed, seen, storeVars>>)
        /\ (pc = "exited" /\ restarts' = restarts)
            => (pc' = "exited" /\ UNCHANGED <<pos, committed, seen, cur>>) ]_vars

\* the loop has exited while a message was still waiting in the topic
C6_Witness == pc = "exited" /\ pos <= Len(log)

\* C7: cancellation signaled after a message has been fetched does not abort
\* the iteration: the handler call and the commit for that message have the
\* outcome they have when cancellation is not signaled.
C7_InFlightUnaffected == outcome.got = outcome.ideal

\* C8: once cancellation is signaled, the consume loop eventually exits (or
\* the process is gone), provided every call in flight returns.
C8_CancelLeadsToExit == cancelled ~> (pc = "exited" \/ ~cancelled)

\* cancellation arrived while a message was in flight, and the loop exited
C8_Witness == pc = "exited" /\ cancelled /\ pos = Len(log) + 1 /\ seen # {}

C12_NoPendingAfterEnqueueFailure ==
    \A u \in Callers :
        (upc[u] = "done" /\ utries[u] >= Attempts /\ CountFor(log, uimg[u].id) = 0
         /\ uimg[u].id # NoId)
            => /\ ures[u] = "err_enqueue"
               /\ ~ \E r \in records : r.id = uimg[u].id /\ r.status = "pending"

\* --------------------------------------------------- concurrent SaveImage calls
\* two HTTP requests run Handler.Upload at the same time, each in the
\* goroutine of its request; the steps of their SaveImage calls interleave
ConcCallers == {"c1", "c2"}

ConcInit ==
    /\ artifacts = [p \in Paths |-> NoBytes]
    /\ records = {}
    /\ nextId = 1
    /\ log = <<>>
    /\ started = 0
    /\ upc = [u \in ConcCallers |-> "idle"]
    /\ uimg = [u \in ConcCallers |-> NoImage]
    /\ utries = [u \in ConcCallers |-> 0]
    /\ ures = [u \in ConcCallers |-> ""]
    /\ pc = "check"
    /\ pos = 1
    /\ committed = 1
    /\ cur = 0
    /\ tries = 0
    /\ cancelled = FALSE
    /\ restarts = 0
    /\ outcome = [got |-> "", ideal |-> ""]
    /\ seen = {}
    /\ permAgain = {}
    /\ okSet = {}
    /\ permSet = {}
    /\ transSet = {}
    /\ derivedOf = {}
    /\ resp = NoResp
    /\ deleted = {}
    /\ probe = NoProbe
    /\ dels = [d \in Deleters |-> NoDel]
    /\ server = Serving

ConcNext ==
    \/ \E u \in ConcCallers : SaveImageStore(u, QueueInputs)
    \/ \E u \in ConcCallers : SaveImageInsert(u)
    \/ \E u \in ConcCallers : Produce(u)

ConcSpec == ConcInit /\ [][ConcNext]_vars

\* C13: concurrent SaveImage calls return pairwise distinct identifiers and
\* each creates its own pending record; no call creates, changes or removes
\* the record of another call.
C13_ConcurrentCallsIndependent ==
    /\ [](\A u, v \in ConcCallers :
            (u # v /\ uimg[u].id # NoId /\ uimg[v].id # NoId)
                => uimg[u].id # uimg[v].id)
    /\ [](\A u \in ConcCallers :
            uimg[u].id # NoId =>
                /\ Cardinality({r \in records : r.id = uimg[u].id}) = 1
                /\ [uimg[u] EXCEPT !.status = "pending"] \in records)
    /\ [][ /\ records \subseteq records'
           /\ \A u \in ConcCallers :
                (upc[u] = "insert" /\ upc'[u] = "enqueue")
                    => /\ records' = records \cup {uimg'[u]}
                       /\ uimg'[u] \notin records
                       /\ \A r \in records : r.id # uimg'[u].id
           /\ records' # records
                => \E u \in ConcCallers : upc[u] = "insert" /\ upc'[u] = "enqueue" ]_vars

\* both calls are in flight, each with its record inserted
C13_Witness ==
    /\ \A u \in ConcCallers : upc[u] = "enqueue" /\ uimg[u].id # NoId
    /\ Cardinality(records) = 2

\* the rows of the persistence store that have identifier id
RowsOf(recs, id) == {r \in recs : r.id = id}

C15_DerivedRecordContract ==
    [][ (pc = "handle" /\ pc' = "commit") =>
            LET job == Unmarshal(log[cur])
            IN  \E r \in records' \ records :
                    /\ r.filename = job.filename
                    /\ r.action = job.action
                    /\ r.status = "processed"
                    /\ r.originalId = job.id
                    /\ r.path # job.path
                    /\ r.path[1] \in {"resized", "thumbnails", "watermarked"}
                    /\ r.path = ObjectName(Subdir(job.action.name), job.filename) ]_vars

\* the identifiers of the records ProcessImage inserted
DerivedIds == {d[2] : d \in derivedOf}

\* C16: in every reachable state of the persistence store, a record has
\* originalId set if and only if it is a derived record with status processed;
\* every record created by an upload has no originalId and status pending.
C16_OriginalIdIffDerived ==
    \A r \in records :
        /\ (r.originalId # NoId) <=> (r.id \in DerivedIds /\ r.status = "processed")
        /\ r.id \notin DerivedIds => (r.originalId = NoId /\ r.status = "pending")

\* ------------------------------------------------------------- HTTP reads
\* Service.GetImage(ctx, id): the row of id, then a reader of the object at
\* its path.  fault names the store call that fails ("none", "db", "load").
\* bytes is what the reader yields (NoBytes: no object at the path).
GetImageFail(e) == [err |-> e, img |-> NoImage, bytes |-> NoBytes]

\* Repository.GetImage: sql.ErrNoRows becomes ErrImageNotFound, which the
\* service wraps with %w so that errors.Is still finds it
\* (faulty variant: the error is returned as any other query error)
NoRowsErrGeneric == "internal"
NoRowsErr == "not_found"

GetImage(recs, arts, id, fault) ==
    IF fault = "db" THEN GetImageFail("internal")
    ELSE IF RowsOf(recs, id) = {} THEN GetImageFail(NoRowsErr)
    ELSE IF fault = "load" THEN GetImageFail("internal")
    ELSE LET r == CHOOSE r \in RowsOf(recs, id) : TRUE
         IN  [err |-> "", img |-> r, bytes |-> arts[r.path]]

\* Handler.GetMeta: every error of GetImage is answered 404, otherwise the
\* image record is the body
GetMeta(recs, arts, id, fault) ==
    LET g == GetImage(recs, arts, id, fault)
    IN  IF g.err # "" THEN [code |-> 404, body |-> NoImage]
        ELSE [code |-> 200, body |-> g.img]

\* Handler.Get: 404 for ErrImageNotFound, 500 for any other error, otherwise
\* the bytes of the reader are the body
Get(recs, arts, id, fault) ==
    LET g == GetImage(recs, arts, id, fault)
    IN  IF g.err = "not_found" THEN [code |-> 404, body |-> NoBytes]
        ELSE IF g.err # "" THEN [code |-> 500, body |-> NoBytes]
        ELSE [code |-> 200, body |-> g.bytes]

\* ----------------------------------------- the pipeline with no call failing
\* uploads whose action the Transformation Engine knows
ValidInputs ==
    {in \in QueueInputs : in.action.name \in {"resize", "thumbnail", "watermark"}}
    \cup { [bytes |-> "img", action |-> [name |-> "thumbnail", width |-> "1",
                                         height |-> "1", text |-> NoParam]],
           [bytes |-> "img", action |-> [name |-> "watermark", width |-> NoParam,
                                         height |-> NoParam, text |-> "t"]] }

\* the steps of SaveImage and of the consume loop when no store call and no
\* queue call fails; Fetch blocks while the topic has no message to deliver
OkSaveImageStore(u) == SaveImageStore(u, ValidInputs) /\ upc'[u] = "insert"
OkSaveImageInsert(u) == SaveImageInsert(u) /\ upc'[u] = "enqueue"
OkProduce(u) == Produce(u) /\ ures'[u] = "ok"
OkFetch == Fetch /\ pc' = "handle"
OkHandle == Handle /\ outcome'.got # "transient"
OkCommit == Commit /\ pc' = "check" /\ committed' = cur + 1

OkCallNext(u) == OkSaveImageInsert(u) \/ OkProduce(u)
OkConsumerNext == LoopCheck \/ OkFetch \/ OkHandle \/ OkCommit

OkNext ==
    \/ \E u \in Callers : OkSaveImageStore(u)
    \/ \E u \in Callers : OkSaveImageInsert(u)
    \/ \E u \in Callers : OkProduce(u)
    \/ LoopCheck
    \/ OkFetch
    \/ OkHandle
    \/ OkCommit

\* fair scheduling: a SaveImage call that has started runs to its return, and
\* the consumer goroutine keeps running
OkFairSpec ==
    /\ Init
    /\ [][OkNext]_vars
    /\ \A u \in Callers : WF_vars(OkCallNext(u))
    /\ WF_vars(OkConsumerNext)

\* C17: after an upload succeeds and its job has been processed successfully,
\* the metadata of the identifier returned by the upload eventually reports
\* status processed.
C17_StatusBecomesProcessed ==
    \A o \in 1..MaxUploads :
        (o \in okSet)
            ~> (o \in okSet
                /\ GetMeta(records, artifacts, log[o].id, "none").body.status = "processed")

\* C18: after its job has been processed successfully, fetching the image by
\* the identifier returned by the upload returns the bytes of the processed
\* (derived) image.
C18_GetReturnsProcessedBytes ==
    \A d \in derivedOf :
        \E r \in RowsOf(records, d[2]) :
            /\ Get(records, artifacts, d[1], "none").code = 200
            /\ Get(records, artifacts, d[1], "none").body = artifacts[r.path]

\* C19: under fair scheduling and with no store or queue failures, every
\* upload that SaveImage accepted with a valid action eventually has a derived
\* record with status processed linked to it.
C19_UploadEventuallyDerived ==
    \A o \in 1..MaxUploads :
        (o <= Len(log))
            ~> (o <= Len(log)
                /\ \E r \in records : r.status = "processed" /\ r.originalId = log[o].id)

\* C20: handler processing is idempotent: handling the same job message twice
\* (a redelivery after a failed commit) leaves the persistence store and the
\* artifact store in the same state as handling it once.
C20_HandleIdempotent ==
    [][ (pc = "handle" /\ cur \in okSet /\ pc' = "commit")
            => (records' = records /\ artifacts' = artifacts) ]_vars

\* C21: when the handler fails for a job, no record in the persistence store
\* is created, modified or deleted.
C21_NoRecordMutationOnFailure ==
    /\ [][ (pc = "handle" /\ pc' = "check" /\ restarts' = restarts)
               => (outcome'.got # "" /\ records' = records /\ nextId' = nextId) ]_vars
    /\ [](\A r \in records :
            \/ r.status = "processed" /\ r.id \in DerivedIds
            \/ r.status = "pending" /\ r.id \notin DerivedIds)

\* the handler has just failed for a job whose pending record is in the store
C21_Witness ==
    /\ pc = "check"
    /\ cur = 1
    /\ outcome.got \in {"transient", "permanent"}
    /\ 1 \in permSet \cup transSet
    /\ [Unmarshal(log[1]) EXCEPT !.status = "pending"] \in records

\* ---------------------------------------------------------------- DeleteImage
\* Repository.DeleteImage: DELETE FROM images WHERE id = $1
\* (faulty variant: the statement removes nothing)
DeleteRowKept(recs, id) == recs
DeleteRow(recs, id) == recs \ RowsOf(recs, id)

\* the artifact store after Service.DeleteImage: fileStorage.Delete(img.Path) is
\* reached only when the record deletion returned nil
\* (faulty variant: the object is removed before the record)
RemoveFirst(arts, path, rowDeleted) == [arts EXCEPT ![path] = NoBytes]
RemoveAfter(arts, path, rowDeleted) ==
    IF rowDeleted THEN [arts EXCEPT ![path] = NoBytes] ELSE arts

\* Service.DeleteImage(ctx, id): read the record, delete the record, delete the
\* object at its path.  fault names the store call that fails ("none", "db":
\* the read, "db_delete": the DELETE, "storage": RemoveObject).
DeleteImage(recs, arts, id, fault) ==
    LET g == GetImage(recs, arts, id, IF fault = "db" THEN "db" ELSE "none")
    IN  IF g.err # "" THEN [err |-> g.err, recs |-> recs, arts |-> arts]
        ELSE IF fault = "db_delete"
          THEN [err |-> "internal", recs |-> recs,
                arts |-> RemoveAfter(arts, g.img.path, FALSE)]
        ELSE IF fault = "storage"
          THEN [err |-> "internal", recs |-> DeleteRow(recs, id), arts |-> arts]
        ELSE [err |-> "", recs |-> DeleteRow(recs, id),
              arts |-> RemoveAfter(arts, g.img.path, TRUE)]

\* Handler.Delete: 404 for ErrImageNotFound, 500 for any other error, else 204
\* with no content
Delete(recs, arts, id, fault) ==
    LET d == DeleteImage(recs, arts, id, fault)
    IN  [code |-> IF d.err = "not_found" THEN 404 ELSE IF d.err # "" THEN 500 ELSE 204,
         recs |-> d.recs, arts |-> d.arts]

\* ------------------------------------------------------------ HTTP requests
\* number of read and delete requests in a run
MaxRequests == 2

\* the identifiers a client asks for: those handed out, and one that no
\* record has
RequestIds == 1..nextId
ReadFaults == {"none", "db", "load"}
DeleteFaults == {"none", "db", "db_delete", "storage"}

\* the server after it answered a request; late: the request was answered
\* between the signal and the return of Consume
Served == [server EXCEPT !.late = @ \/ (cancelled /\ pc # "exited")]

\* GET /api/image/:id
HttpGet ==
    /\ server.up
    /\ resp.n < MaxRequests
    /\ \E id \in RequestIds, fault \in ReadFaults :
         LET r == Get(records, artifacts, id, fault)
         IN  resp' = [n |-> resp.n + 1, op |-> "get", id |-> id, fault |-> fault,
                      code |-> r.code,
                      img |-> NoImage, bytes |-> r.body]
    /\ server' = Served
    /\ UNCHANGED <<storeVars, log, uploadVars, loopVars, histVars, deleted, probe, dels>>

\* GET /api/image/:id/meta
HttpGetMeta ==
    /\ server.up
    /\ resp.n < MaxRequests
    /\ \E id \in RequestIds, fault \in ReadFaults :
         LET r == GetMeta(records, artifacts, id, fault)
         IN  resp' = [n |-> resp.n + 1, op |-> "meta", id |-> id, fault |-> fault,
                      code |-> r.code,
                      img |-> r.body, bytes |-> NoBytes]
    /\ server' = Served
    /\ UNCHANGED <<storeVars, log, uploadVars, loopVars, histVars, deleted, probe, dels>>

\* DELETE /api/image/:id
HttpDelete ==
    /\ server.up
    /\ resp.n < MaxRequests
    /\ \E id \in RequestIds, fault \in DeleteFaults :
         LET r == Delete(records, artifacts, id, fault)
         IN  /\ records' = r.recs
             /\ artifacts' = r.arts
             /\ deleted' = IF r.code = 204 THEN deleted \cup {id} ELSE deleted
             /\ resp' = [n |-> resp.n + 1, op |-> "delete", id |-> id, fault |-> fault,
                      code |-> r.code,
                         img |-> NoImage, bytes |-> NoBytes]
    /\ server' = Served
    /\ UNCHANGED <<nextId, log, uploadVars, loopVars, histVars, probe, dels>>

\* the HTTP API next to the consumer, on stores and a topic that hold the
\* uploads made so far: reads and deletes interleave with the processing of
\* the jobs
HttpNext ==
    \/ LoopCheck
    \/ OkFetch
    \/ OkHandle
    \/ OkCommit
    \/ HttpGet
    \/ HttpGetMeta
    \/ HttpDelete

HttpSpec == LoopInit /\ [][HttpNext]_vars

\* a step that answers a request of kind op
Answered(op) == resp'.n = resp.n + 1 /\ resp'.op = op

\* C22: DeleteImage on an identifier that has no record returns NotFound, not
\* a generic failure (whenever the record read itself is answered), and leaves
\* the persistence store and the artifact store unchanged.
C22_DeleteAbsentIsNotFound ==
    [][ (Answered("delete") /\ RowsOf(records, resp'.id) = {})
            => /\ resp'.fault # "db" => resp'.code = 404
               /\ resp'.code # 204
               /\ records' = records
               /\ artifacts' = artifacts
               /\ deleted' = deleted ]_vars

\* a delete of an identifier without a record was answered 404 while the store
\* holds other records
C22_Witness ==
    /\ resp.op = "delete"
    /\ resp.code = 404
    /\ resp.fault = "storage"
    /\ records # {}
    /\ RowsOf(records, resp.id) = {}
    /\ deleted = {}

\* C23: after DeleteImage(id) returns success, the record and its artifact are
\* both gone, and every later GetImage(id) returns NotFound.
C23_DeletedStaysGone ==
    /\ [][ (Answered("delete") /\ resp'.code = 204)
               => /\ RowsOf(records, resp'.id) # {}
                  /\ RowsOf(records', resp'.id) = {}
                  /\ \A r \in RowsOf(records, resp'.id) : artifacts'[r.path] = NoBytes ]_vars
    /\ [](\A id \in deleted :
            /\ GetImage(records, artifacts, id, "none").err = "not_found"
            /\ GetImage(records, artifacts, id, "load").err = "not_found")
    /\ [][ ((Answered("get") \/ Answered("meta")) /\ resp'.id \in deleted
            /\ resp'.fault # "db") => resp'.code = 404 ]_vars

\* an image was deleted and a later fetch of its identifier was answered 404
C23_Witness ==
    /\ resp.op = "get"
    /\ resp.id \in deleted
    /\ resp.fault = "none"
    /\ resp.code = 404

\* C24: DeleteImage deletes the artifact only after the record deletion has
\* succeeded; if the record deletion fails, the artifact is left in place and
\* the error is returned.
C24_ArtifactAfterRecord ==
    [][ Answered("delete") =>
            /\ artifacts' # artifacts => RowsOf(records', resp'.id) # RowsOf(records, resp'.id)
            /\ (resp'.fault = "db_delete" /\ RowsOf(records, resp'.id) # {})
                   => (resp'.code = 500 /\ artifacts' = artifacts /\ records' = records)
            /\ records' = records => artifacts' = artifacts ]_vars

\* the record deletion failed for an existing record whose object is stored
C24_Witness ==
    /\ resp.op = "delete"
    /\ resp.fault = "db_delete"
    /\ resp.code = 500
    /\ \E r \in RowsOf(records, resp.id) : artifacts[r.path] # NoBytes

\* C25: on image fetch, metadata fetch and delete, a NotFound outcome is
\* reported if and only if no record exists for the identifier (given that the
\* record read is answered); every other failure (record read failure,
\* artifact load failure) is reported as a different, generic error.
C25_NotFoundIffNoRecord ==
    [][ (Answered("get") \/ Answered("meta") \/ Answered("delete")) =>
            LET absent == RowsOf(records, resp'.id) = {}
            IN  /\ resp'.code = 404 => absent
                /\ (absent /\ resp'.fault # "db") => resp'.code = 404
                /\ (resp'.fault = "db" \/ (~absent /\ resp'.fault # "none"))
                       => resp'.code = 500 ]_vars


\* ------------------------------------------------- uploads with bad parameters
\* what Handler.Upload passes on from the form: the jobs of ValidInputs and
\* resize/thumbnail jobs whose width or height is missing or not an integer
\* (r.FormValue gives "" for a missing field)
UploadInputs ==
    ValidInputs
    \cup { [bytes |-> "img", action |-> [name |-> "resize", width |-> "x",
                                         height |-> "1", text |-> NoParam]],
           [bytes |-> "img", action |-> [name |-> "thumbnail", width |-> "1",
                                         height |-> NoParam, text |-> NoParam]] }

\* a resize or thumbnail action whose width or height strconv.Atoi rejects
BadSize(a) ==
    /\ a.name \in {"resize", "thumbnail"}
    /\ ~AtoiOK(a.width) \/ ~AtoiOK(a.height)

\* Handler.Upload -> Service.SaveImage, any outcome of every store and queue
\* call
UploadNext ==
    \/ \E u \in Callers : SaveImageStore(u, UploadInputs)
    \/ \E u \in Callers : SaveImageInsert(u)
    \/ \E u \in Callers : Produce(u)

UploadSpec == Init /\ [][UploadNext]_vars

\* C26: an upload whose action is resize or thumbnail with a missing or
\* non-integer width or height is rejected at once: its original is not
\* stored (no call carries such an action past the store step), no pending
\* record of it is inserted and no job of it is enqueued.
C26_BadSizeRejectedAtUpload ==
    /\ \A u \in Callers : ~BadSize(uimg[u].action)
    /\ \A r \in records : ~BadSize(r.action)
    /\ \A k \in 1..Len(log) : ~BadSize(Unmarshal(log[k]).action)


\* ------------------------------------------------------- Process on its own
\* the jobs Process is applied to: every action name, every width and height
\* among the integers of IntStrings, a non-integer and the missing key, and a
\* missing, a short and a long watermark text
SizeStrings == IntStrings \cup {"x", NoParam}
Texts == {NoParam, "t", "a long watermark text"}
ProcActions ==
    { [name |-> n, width |-> w, height |-> h, text |-> NoParam] :
        n \in {"resize", "thumbnail"}, w \in SizeStrings, h \in SizeStrings }
    \cup { [name |-> "watermark", width |-> NoParam, height |-> NoParam, text |-> t] :
             t \in Texts }
    \cup { [name |-> "bogus", width |-> "1", height |-> "1", text |-> NoParam] }
ProcJobs ==
    { [NoImage EXCEPT !.id = 1, !.filename = "a.png",
                      !.path = ObjectName("original", "a.png"),
                      !.action = a, !.status = "pending"] : a \in ProcActions }
ProcFaults == {"none", "load", "font", "encode", "save"}

\* the artifact store Process runs on: the original is an image of one of the
\* sizes, bytes that are no image, or absent; the resized object may exist
\* from an earlier run
ProcInit ==
    /\ \E b \in RasterBytes \cup {"junk", NoBytes}, old \in {NoBytes, "old"} :
         artifacts = [p \in Paths |->
                        IF p = ObjectName("original", "a.png") THEN b
                        ELSE IF p = ObjectName("resized", "a.png") THEN old
                        ELSE NoBytes]
    /\ records = {}
    /\ nextId = 1
    /\ log = <<>>
    /\ started = 0
    /\ upc = [u \in Callers |-> "idle"]
    /\ uimg = [u \in Callers |-> NoImage]
    /\ utries = [u \in Callers |-> 0]
    /\ ures = [u \in Callers |-> ""]
    /\ pc = "check"
    /\ pos = 1
    /\ committed = 1
    /\ cur = 0
    /\ tries = 0
    /\ cancelled = FALSE
    /\ restarts = 0
    /\ outcome = [got |-> "", ideal |-> ""]
    /\ seen = {}
    /\ permAgain = {}
    /\ okSet = {}
    /\ permSet = {}
    /\ transSet = {}
    /\ derivedOf = {}
    /\ resp = NoResp
    /\ deleted = {}
    /\ probe = NoProbe
    /\ dels = [d \in Deleters |-> NoDel]
    /\ server = Serving

\* one call of Processor.Process(ctx, job); probe keeps the call, the store it
\* ran on and what it returned
ProcessCall ==
    /\ ~probe.done
    /\ \E job \in ProcJobs, fault \in ProcFaults :
         LET r == Process(job, artifacts, fault)
         IN  /\ artifacts' = r.arts
             /\ probe' = [done |-> TRUE, job |-> job, fault |-> fault,
                          before |-> artifacts, err |-> r.err, img |-> r.img,
                          calls |-> r.calls, raster |-> r.raster]
    /\ UNCHANGED <<records, nextId, log, uploadVars, loopVars, histVars, resp, deleted,
                   dels, server>>

ProcNext == ProcessCall

ProcSpec == ProcInit /\ [][ProcNext]_vars

\* C27: for resize and thumbnail, Process with a missing or non-integer width
\* or height returns an error before any call to the artifact store: no read,
\* no write, and the store is as it was.
C27_BadSizeFailsBeforeStoreCalls ==
    (probe.done /\ BadSize(probe.job.action)) =>
        /\ probe.err # ""
        /\ probe.calls = <<>>
        /\ artifacts = probe.before

\* a bad width on a job whose original is a readable image, with no store
\* failure at hand
C27_Witness ==
    /\ probe.done
    /\ BadSize(probe.job.action)
    /\ probe.fault = "none"
    /\ DecodeOK(probe.before[probe.job.path])
    /\ probe.err = "permanent"


\* C28: whenever Process returns an error (unknown action, invalid parameter,
\* load, decode, font, encode or write failure) the artifact store is as it
\* was before the call; Process writes at most once, and only after the load
\* returned, the bytes decoded and the encoding succeeded; a call that
\* succeeds changes the destination object and nothing else.
C28_ErrorLeavesArtifactsUnchanged ==
    probe.done =>
        LET dst == ObjectName(Subdir(probe.job.action.name), probe.job.filename)
            writes == {k \in 1..Len(probe.calls) : probe.calls[k] = "save"}
        IN  /\ probe.err # "" => artifacts = probe.before
            /\ Cardinality(writes) <= 1
            /\ writes # {} =>
                 /\ probe.calls = <<"load", "save">>
                 /\ probe.fault \notin {"load", "encode"}
                 /\ probe.fault = "font" => probe.job.action.name # "watermark"
                 /\ DecodeOK(probe.before[probe.job.path])
                 /\ ~BadSize(probe.job.action)
            /\ probe.err = "" =>
                 /\ writes # {}
                 /\ \A p \in Paths : p # dst => artifacts[p] = probe.before[p]
                 /\ artifacts[dst] # probe.before[dst]

\* the write itself fails, after load, decode and encode succeeded, on a store
\* that already holds an earlier result
C28_Witness ==
    /\ probe.done
    /\ probe.fault = "save"
    /\ probe.err = "transient"
    /\ probe.calls = <<"load", "save">>
    /\ probe.job.action.name = "resize"
    /\ probe.before[ObjectName("resized", "a.png")] = "old"


\* C29: for every resize or thumbnail job with integer width and height for
\* which Process succeeds, the raster written is exactly width by height,
\* whatever the size and aspect ratio of the source.
C29_OutputIsWidthByHeight ==
    ( /\ probe.done
      /\ probe.job.action.name \in {"resize", "thumbnail"}
      /\ AtoiOK(probe.job.action.width)
      /\ AtoiOK(probe.job.action.height)
      /\ probe.err = "" ) =>
        probe.raster = [w |-> Atoi(probe.job.action.width).val,
                        h |-> Atoi(probe.job.action.height).val]


\* ------------------------------------------------------------ watermark layout
\* lengths in thousandths of a pixel
Px == 1000
\* fontSize := float64(dc.Width()) * 0.05, in thousandths of the width
FontPerMille == 50
\* margin := 10.0, in pixels
Margin == 10
\* the advance of a glyph of DejaVuSans in thousandths of the font size (the
\* face is close to 0.6 em a glyph on ordinary text)
GlyphAdvance == 600
\* gg.LoadFontFace: fontHeight = points * 72 / 96, in thousandths of the size
LineHeight == 750

\* text := params["text"]; "Watermark" when it is empty
WatermarkText(t) == IF t = NoParam THEN "Watermark" ELSE t

\* the rectangle the text is drawn in on a canvas of the size of src:
\* (tw, th) = dc.MeasureString(text); x = W - tw - margin; y = H - th - margin;
\* dc.DrawStringAnchored(text, x, y, 1, 1) moves the pen to (x - 1 * tw,
\* y + 1 * th) and draws the text to the right of it, above that baseline
TextBox(src, text) ==
    LET fontSize == FontPerMille * src.w
        tw == Len(text) * ((GlyphAdvance * fontSize) \div 1000)
        th == (LineHeight * fontSize) \div 1000
        x == Px * src.w - tw - Px * Margin
        y == Px * src.h - th - Px * Margin
        penX == x - tw
        penY == y + th
    IN  [left |-> penX, right |-> penX + tw, top |-> penY - th, bottom |-> penY]

\* the rectangle lies on the canvas
OnCanvas(box, canvas) ==
    /\ 0 <= box.left
    /\ box.right <= Px * canvas.w
    /\ 0 <= box.top
    /\ box.bottom <= Px * canvas.h

\* C30: for every watermark job for which Process succeeds, the output has
\* the width and height of its source and the rectangle of the rendered text
\* lies entirely on the canvas, for every text length and source size.
C30_WatermarkTextOnCanvas ==
    (probe.done /\ probe.job.action.name = "watermark" /\ probe.err = "") =>
        LET src == RasterOf(probe.before[probe.job.path])
        IN  /\ probe.raster = src
            /\ OnCanvas(TextBox(src, WatermarkText(probe.job.action.text)), probe.raster)


\* ------------------------------------------------ uploads under one filename
\* two kinds of upload that differ in bytes and in action, so that the action
\* of a job tells which bytes were uploaded with it
SameNameInputs ==
    { [bytes |-> "img",  action |-> [name |-> "resize", width |-> "2", height |-> "1",
                                     text |-> NoParam]],
      [bytes |-> "tall", action |-> [name |-> "thumbnail", width |-> "1", height |-> "1",
                                     text |-> NoParam]] }

\* SaveImage calls (all under the one filename of Filenames) and the consume
\* loop, no store call and no queue call failing
SameNameStore(u) == SaveImageStore(u, SameNameInputs) /\ upc'[u] = "insert"
SameNameNext ==
    \/ \E u \in Callers : SameNameStore(u)
    \/ \E u \in Callers : OkSaveImageInsert(u)
    \/ \E u \in Callers : OkProduce(u)
    \/ LoopCheck
    \/ OkFetch
    \/ OkHandle
    \/ OkCommit

SameNameSpec == Init /\ [][SameNameNext]_vars

\* C31: the derived artifact of a job is computed from the bytes that were
\* uploaded with that job, also when other uploads with the same filename come
\* between the job's upload and its processing: every derived object is the
\* transformation of the bytes its kind of job was uploaded with.
C31_DerivedFromOwnBytes ==
    \A in \in SameNameInputs, f \in Filenames :
        artifacts[ObjectName(Subdir(in.action.name), f)]
            \in {NoBytes, Transform(in.action.name, in.bytes)}


\* ------------------------------------- uploads, processing and deletes together
\* DELETE /api/image/:id with no store call failing (204, or 404 when the
\* identifier has no record)
OkHttpDelete == HttpDelete /\ resp'.fault = "none"

\* SaveImage calls, the consume loop and DeleteImage calls in any order, no
\* store call and no queue call failing
LifeNext ==
    \/ \E u \in Callers : OkSaveImageStore(u)
    \/ \E u \in Callers : OkSaveImageInsert(u)
    \/ \E u \in Callers : OkProduce(u)
    \/ LoopCheck
    \/ OkFetch
    \/ OkHandle
    \/ OkCommit
    \/ OkHttpDelete

LifeSpec == Init /\ [][LifeNext]_vars

\* C32: after any sequence of successful SaveImage, ProcessImage and
\* DeleteImage calls, in any interleaving, every record of the persistence
\* store has a path at which the artifact store holds an object.
C32_RecordPathsPresent ==
    \A r \in records : artifacts[r.path] # NoBytes

\* C34: if DeleteImage(id) completed before the consumer handles the job of
\* id, the handler fails for that job and creates neither a derived record nor
\* a derived artifact for the deleted source.
C34_DeletedSourceNotProcessed ==
    [][ (pc = "handle" /\ pc' # "handle" /\ Unmarshal(log[cur]).id \in deleted)
            => /\ outcome'.got # ""
               /\ records' = records
               /\ artifacts' = artifacts ]_vars


\* C33: when ProcessImage returns an error because the insert of the derived
\* record failed, the artifact store holds no derived artifact of that job: a
\* failed ProcessImage (the handler returns its error) leaves the artifact
\* store and the persistence store as they were before the call.
C33_FailedProcessImageLeavesStores ==
    [][ (pc = "handle" /\ pc' = "check" /\ restarts' = restarts)
            => (artifacts' = artifacts /\ records' = records) ]_vars


\* ------------------------------------------------- concurrent DeleteImage calls
\* Repository.DeleteImage when the DELETE affected no row: ErrImageNotFound
\* (faulty variant: deleting nothing is no error)
ZeroRowsNil == ""
ZeroRowsErr == "not_found"

\* a client sends DELETE /api/image/:id; existed: the identifier had a record
\* when the call began
DelStart(d) ==
    /\ dels[d].pc = "idle"
    /\ \E id \in RequestIds :
         dels' = [dels EXCEPT ![d] = [NoDel EXCEPT !.pc = "get", !.id = id,
                                                  !.existed = RowsOf(records, id) # {}]]
    /\ UNCHANGED <<storeVars, log, uploadVars, loopVars, histVars, resp, deleted, probe,
                   server>>

\* Service.DeleteImage, step 1: s.repository.GetImage(ctx, id)
DelGet(d) ==
    /\ dels[d].pc = "get"
    /\ \E fault \in {"none", "db"} :
         LET g == GetImage(records, artifacts, dels[d].id, fault)
         IN  dels' = [dels EXCEPT ![d] =
                        IF g.err # "" THEN [@ EXCEPT !.pc = "done", !.res = g.err]
                        ELSE [@ EXCEPT !.pc = "delete", !.img = g.img]]
    /\ UNCHANGED <<storeVars, log, uploadVars, loopVars, histVars, resp, deleted, probe,
                   server>>

\* Service.DeleteImage, step 2: s.repository.DeleteImage(ctx, id)
DelRow(d) ==
    /\ dels[d].pc = "delete"
    /\ \E fault \in {"none", "db_delete"} :
         LET err == IF fault = "db_delete" THEN "internal"
                    ELSE IF RowsOf(records, dels[d].id) = {} THEN ZeroRowsErr
                    ELSE ""
         IN  IF err # ""
               THEN /\ dels' = [dels EXCEPT ![d] = [@ EXCEPT !.pc = "done", !.res = err]]
                    /\ UNCHANGED records
               ELSE /\ dels' = [dels EXCEPT ![d] = [@ EXCEPT !.pc = "remove"]]
                    /\ records' = DeleteRow(records, dels[d].id)
    /\ UNCHANGED <<artifacts, nextId, log, uploadVars, loopVars, histVars, resp, deleted,
                   probe, server>>

\* Service.DeleteImage, step 3: s.fileStorage.Delete(ctx, img.Path), and the
\* return
DelRemove(d) ==
    /\ dels[d].pc = "remove"
    /\ \E fault \in {"none", "storage"} :
         IF fault = "storage"
           THEN /\ dels' = [dels EXCEPT ![d] = [@ EXCEPT !.pc = "done", !.res = "internal",
                                                         !.removes = @ + 1]]
                /\ UNCHANGED <<artifacts, deleted>>
           ELSE /\ dels' = [dels EXCEPT ![d] = [@ EXCEPT !.pc = "done", !.res = "ok",
                                                         !.removes = @ + 1]]
                /\ artifacts' = RemoveAfter(artifacts, dels[d].img.path, TRUE)
                /\ deleted' = deleted \cup {dels[d].id}
    /\ UNCHANGED <<records, nextId, log, uploadVars, loopVars, histVars, resp, probe,
                   server>>

\* two clients, one DeleteImage call each, on the stores a number of uploads
\* left behind
DelNext ==
    \/ \E d \in Deleters : DelStart(d)
    \/ \E d \in Deleters : DelGet(d)
    \/ \E d \in Deleters : DelRow(d)
    \/ \E d \in Deleters : DelRemove(d)

DelSpec == LoopInit /\ [][DelNext]_vars

\* C35: when two DeleteImage calls for the same existing identifier run
\* concurrently (the record was there when each of them began) and no store
\* call fails, exactly one returns success and the other returns NotFound;
\* the object is removed by the successful call only: a call that returns
\* NotFound has issued no delete to the artifact store.
C35_ConcurrentDeletesOneWins ==
    /\ \A d1 \in Deleters : \A d2 \in Deleters \ {d1} :
         ( /\ dels[d1].pc = "done" /\ dels[d2].pc = "done"
           /\ dels[d1].id = dels[d2].id
           /\ dels[d1].existed /\ dels[d2].existed
           /\ dels[d1].res # "internal" /\ dels[d2].res # "internal" )
         => {dels[d1].res, dels[d2].res} = {"ok", "not_found"}
    /\ \A d \in Deleters :
         /\ dels[d].res = "not_found" => dels[d].removes = 0
         /\ dels[d].res = "ok" => dels[d].removes = 1

\* both calls read the record before either deleted it; the DELETE of d2
\* affected no row
C35_Witness ==
    /\ dels["d1"].pc = "done" /\ dels["d2"].pc = "done"
    /\ dels["d1"].id = dels["d2"].id
    /\ dels["d1"].res = "ok"
    /\ dels["d2"].res = "not_found"
    /\ dels["d2"].img # NoImage
    /\ dels["d2"].img = dels["d1"].img


\* C36: if SaveImage fails while storing the original bytes, no record is
\* inserted and no job is enqueued; if it fails while inserting the pending
\* record, no job is enqueued.  The failing step changes neither the
\* persistence store nor the topic and ends the call; a call that has returned
\* one of the two errors has inserted nothing and has made no send attempt;
\* rows are inserted only by a call whose store step succeeded, and messages
\* are sent only by a call whose insert succeeded.
C36_FailedSaveImageStopsEarly ==
    /\ [][ \A u \in ConcCallers :
             (upc'[u] # upc[u] /\ ures'[u] \in {"err_storage", "err_db"})
                 => /\ upc[u] = (IF ures'[u] = "err_db" THEN "insert" ELSE "idle")
                       \/ (ures'[u] = "err_storage" /\ upc[u] = "done")
                    /\ upc'[u] = "done"
                    /\ records' = records
                    /\ nextId' = nextId
                    /\ log' = log ]_vars
    /\ [](\A u \in ConcCallers :
            ures[u] \in {"err_storage", "err_db"}
                => /\ upc[u] = "done"
                   /\ utries[u] = 0
                   /\ uimg[u].id = NoId)
    /\ [][ records' # records
             => \E u \in ConcCallers :
                  upc[u] = "insert" /\ upc'[u] = "enqueue" /\ ures'[u] = "" ]_vars
    /\ [][ log' # log
             => \E u \in ConcCallers :
                  upc[u] = "enqueue" /\ uimg[u].id # NoId /\ utries'[u] = utries[u] + 1 ]_vars

\* one call failed at the insert after its bytes were stored, the other at the
\* store step: no record and no message exist
C36_Witness ==
    /\ \E u \in ConcCallers : upc[u] = "done" /\ ures[u] = "err_db"
    /\ \E u \in ConcCallers : upc[u] = "done" /\ ures[u] = "err_storage"
    /\ artifacts[ObjectName("original", "a.png")] # NoBytes
    /\ records = {}
    /\ log = <<>>


\* -------------------------------------------------------------------- shutdown
\* main after <-ctx.Done(): wg.Wait() returns when Consume has returned (its
\* deferred wg.Done()); only then s.Shutdown is called
\* (faulty variant: the server is shut down as soon as the signal arrives)
ShutdownOnSignal(c, p) == c
MayShutdown(c, p) == c /\ p = "exited"

\* s.Shutdown(shutdownCtx): the server stops accepting requests
Shutdown ==
    /\ server.up
    /\ MayShutdown(cancelled, pc)
    /\ server' = [server EXCEPT !.up = FALSE]
    /\ UNCHANGED <<storeVars, log, uploadVars, loopVars, histVars, resp, deleted, probe,
                   dels>>

\* GET /api/image/:id with no store call failing
OkHttpGet == HttpGet /\ resp'.fault = "none"

\* the consumer goroutine (any outcome of its calls), the HTTP server (reads
\* and deletes, no store call failing) and main, from the start of the
\* process to the end of the server, on stores and a topic that hold the
\* uploads made so far
ShutdownNext ==
    \/ LoopCheck
    \/ Fetch
    \/ Handle
    \/ Commit
    \/ Cancel
    \/ OkHttpGet
    \/ OkHttpDelete
    \/ Shutdown

ShutdownSpec == LoopInit /\ [][ShutdownNext]_vars

\* C37: on shutdown the HTTP server's shutdown is initiated only after the
\* consume loop has returned; from the signal until then the server is still
\* serving, so requests interleave with the consumer's last iteration.
C37_ServerOutlivesConsumer ==
    /\ [][ server'.up # server.up
             => (server.up /\ ~server'.up /\ cancelled /\ pc = "exited") ]_vars
    /\ [](~server.up => (cancelled /\ pc = "exited"))
    /\ []((cancelled /\ pc # "exited") => server.up)
    /\ [](server.late => cancelled)

\* a delete was answered with success after the signal, while the last
\* iteration of the loop was between its handler call and its commit
C37_Witness ==
    /\ cancelled
    /\ pc = "commit"
    /\ server.up
    /\ server.late
    /\ resp.op = "delete"
    /\ resp.code = 204
    /\ outcome.got = ""

=============================================================================
